---- MODULE Spec2Model ----
(***************************************************************************)
(* Model of separation/src/setup_cl.c (Milkyway@Home separation client):   *)
(*   - findRunSizes, the run-size planner, with findNChunk and             *)
(*     estimateWUGFLOPsPerIter, as a function applied to bounded inputs    *)
(*     (specification SpecRunSizes);                                       *)
(*   - setupSeparationCL with separationCheckDevCapabilities,              *)
(*     separationCheckDevMemory, usingILKernelIsAcceptable and             *)
(*     setProgramFromILKernel, one action per statement that calls into    *)
(*     OpenCL (specification SpecSetup).                                   *)
(*                                                                         *)
(* Integer widths.  TLC's integers are 32 bit, so cl_uint (32 bit) and     *)
(* cl_ulong / size_t (64 bit, LP64 and LLP64 builds) are modelled with     *)
(* WidthBits and 2 * WidthBits bits: every C conversion in the code is a   *)
(* reduction modulo the width of its target type, and a cl_ulong is twice  *)
(* as wide as a cl_uint, as in the code.                                   *)
(***************************************************************************)
EXTENDS Integers, Sequences, FiniteSets, TLC

\* ------------------------------------------------------------------ bounds
WidthBits == 4
MaxSteps == 5
MaxMagic == 3
MaxWorkItem == 3
MaxCuts == 2

\* ------------------------------------------------------- program constants
NUM_CONST_BUF_ARGS == 5
maxILKernelStreams == 4

CL_UINT_MAX == 2^WidthBits - 1
CL_ULONG_MAX == 2^(2 * WidthBits) - 1

\* conversions to cl_uint, cl_ulong and size_t
UInt(x) == x % (CL_UINT_MAX + 1)
ULong(x) == x % (CL_ULONG_MAX + 1)
SizeT(x) == x % (CL_ULONG_MAX + 1)

mwDivRoundup(a, b) == IF a % b # 0 THEN a \div b + 1 ELSE a \div b
mwDivisible(a, b) == a % b = 0

VARIABLES
    \* inputs of both entry points
    ia,         \* IntegralArea of findRunSizes: r_steps, mu_steps, nu_steps
    di,         \* DevInfo
    ap,         \* AstronomyParameters
    clr,        \* CLRequest
    wgi,        \* what mwGetWorkGroupInfo answers: err, wgs
    \* findRunSizes
    sizes,      \* the caller's RunSizes
    written,    \* the fields of sizes findRunSizes has assigned
    runRet,     \* "none" before the call, then "CL_FALSE" or "CL_TRUE"
    runInfo,    \* what the call did: wgQueried, clamped, blockSize, failedAt
    \* setupSeparationCL
    ias,        \* the cuts: a sequence of SeparationSizes (calculateSizes' results)
    build,      \* the build's configuration: DOUBLEPREC, AMD offline devices
    pc,         \* position in setupSeparationCL
    err,        \* the local err, the return value at pc = "done"
    useILKernel,
    compileFlags, \* "none", "allocated", "freed"
    progs,      \* program objects ever created: sequence of [kind, released]
    ciProg,     \* ci->prog: index into progs, 0 when unset
    kernel,     \* _separationKernel: 0 when NULL, else the program it was made from
    hist        \* what the run did: capsResult, failedCut, steps' results

runVars == <<sizes, written, runRet, runInfo>>
inVars == <<ia, di, ap, clr, wgi>>
setupVars == <<ias, build, pc, err, useILKernel, compileFlags, progs, ciProg, kernel, hist>>
vars == <<inVars, runVars, setupVars>>

\* --------------------------------------------------------------- RunSizes
RunSizesFields ==
    {"r", "mu", "nu", "area", "nChunkEstimate", "chunkSize", "effectiveArea",
     "nChunk", "extra", "local", "global"}

\* the caller's RunSizes before the call
PriorSizes == [f \in RunSizesFields |-> 0]

\* ------------------------------------------------------------- cost estimate
\* perIter of estimateWUGFLOPsPerIter, in flop (the function returns 1.0e-9 * perIter)
estimateWUFLOPsPerIter(p, a) ==
    LET tmp0 == ULong(32 + p.number_streams * 68)
        tmp == IF p.aux_bg_profile THEN ULong(tmp0 + 8) ELSE tmp0
        perItem == ULong(ULong(tmp * p.convolve) + 1 + (p.number_streams * 2))
    IN  ULong(ULong(perItem * a.mu_steps) * a.r_steps)

\* estIterTime / timePerIter = iterFlops * targetFrequency / (0.95 * gflops), with
\* the device's rate d.flops in flop/s (1.0e9 * mwDeviceEstimateGFLOPs) so that the
\* quotient is one of integers; (cl_uint) truncates towards zero.
findNChunk(p, a, d, q) ==
    LET perIter == estimateWUFLOPsPerIter(p, a)
        nChunk == UInt((perIter * q.targetFrequency * 100) \div (95 * d.flops))
    IN  IF nChunk = 0 THEN 1 ELSE nChunk

\* ------------------------------------------------------------ findRunSizes
\* const cl_ulong maxWorkDim
MaxWorkDim(d) ==
    ULong(ULong(d.maxWorkItemSizes[1] * d.maxWorkItemSizes[2]) * d.maxWorkItemSizes[3])

Assign(s, fs) == [f \in RunSizesFields |-> IF f \in DOMAIN fs THEN fs[f] ELSE s[f]]

\* what findRunSizes leaves behind: its return value, the caller's RunSizes, the
\* fields it assigned, and a trace of the path it took
Outcome(ret, s, w, queried, clamped, bs, at) ==
    [ret |-> ret, sizes |-> s, written |-> w,
     info |-> [wgQueried |-> queried, clamped |-> clamped, blockSize |-> bs, at |-> at]]

\* sizes->r .. sizes->area, assigned before the overflow test
EntryWrites(s, a) ==
    Assign(s, [r |-> a.r_steps, mu |-> a.mu_steps, nu |-> a.nu_steps,
               area |-> ULong(a.r_steps * a.mu_steps)])

EntryFields == {"r", "mu", "nu", "area"}

\* ClampLoop with "if" for "while": nChunk is doubled once
ClampLoop_Once(nChunk, chunkSize, effectiveArea, maxWorkDim) ==
    IF chunkSize > maxWorkDim
    THEN <<SizeT(nChunk * 2), effectiveArea \div SizeT(nChunk * 2)>>
    ELSE <<nChunk, chunkSize>>

\* the while loop of the oversized-chunk correction: <<nChunk, chunkSize>> at its end
RECURSIVE ClampLoop(_, _, _, _)
ClampLoop(nChunk, chunkSize, effectiveArea, maxWorkDim) ==
    IF chunkSize > maxWorkDim
    THEN LET n2 == SizeT(nChunk * 2)
         IN  ClampLoop(n2, effectiveArea \div n2, effectiveArea, maxWorkDim)
    ELSE <<nChunk, chunkSize>>

\* MagicFactor without the user setting: always the default calculation
MagicFactor_Default(q, area, nChunkEstimate, blockSize) ==
    LET m == UInt(area \div SizeT(nChunkEstimate * blockSize))
    IN  IF m = 0 THEN 1 ELSE m

\* the magic factor
MagicFactor(q, area, nChunkEstimate, blockSize) ==
    IF q.magicFactor <= 0
    THEN LET m == UInt(area \div SizeT(nChunkEstimate * blockSize))
         IN  IF m = 0 THEN 1 ELSE m
    ELSE UInt(q.magicFactor)

\* NChunk without forceOneChunk
NChunk_Unforced(forceOneChunk, effectiveArea, chunkSize) ==
    mwDivRoundup(effectiveArea, chunkSize)

\* sizes->nChunk = forceOneChunk ? 1 : mwDivRoundup(sizes->effectiveArea, sizes->chunkSize)
NChunk(forceOneChunk, effectiveArea, chunkSize) ==
    IF forceOneChunk THEN 1 ELSE mwDivRoundup(effectiveArea, chunkSize)

\* the part of findRunSizes after the work group query: the device is no CPU,
\* s1 holds the entry writes, g is the reported work group info
PlanGPU(s1, a, d, p, q, g) ==
    LET forceOneChunk == q.nonResponsive \/ d.nonOutput
        maxWorkDim == MaxWorkDim(d)
        area == s1.area
        nWavefrontPerCU == g.wgs \div d.warpSize
        local == d.warpSize
        blockSize == SizeT(SizeT(nWavefrontPerCU * d.warpSize) * d.maxCompUnits)
        nChunkEstimate == findNChunk(p, a, d, q)
        magic == MagicFactor(q, area, nChunkEstimate, blockSize)
        chunkSize0 == SizeT(magic * blockSize)
        effectiveArea0 == ULong(chunkSize0 * mwDivRoundup(area, chunkSize0))
        nChunk0 == NChunk(forceOneChunk, effectiveArea0, chunkSize0)
        extra0 == UInt(ULong(effectiveArea0 - area))
        \* if (sizes->nChunk == 1)
        effectiveArea == IF nChunk0 = 1
                         THEN ULong(blockSize * mwDivRoundup(area, blockSize))
                         ELSE effectiveArea0
        extra == IF nChunk0 = 1 THEN UInt(ULong(effectiveArea - area)) ELSE extra0
        chunkSize1 == effectiveArea \div nChunk0
        over == chunkSize1 > maxWorkDim
        loop == ClampLoop(nChunk0, chunkSize1, effectiveArea, maxWorkDim)
        nChunk == loop[1]
        chunkSize == loop[2]
        w == EntryFields \cup {"local", "nChunkEstimate", "chunkSize", "effectiveArea",
                               "nChunk", "extra"}
        s2 == Assign(s1, [local |-> local, nChunkEstimate |-> nChunkEstimate,
                          chunkSize |-> chunkSize, effectiveArea |-> effectiveArea,
                          nChunk |-> nChunk, extra |-> extra])
        s3 == Assign(s2, [global |-> chunkSize])
    IN  IF over /\ ~mwDivisible(chunkSize, local)
        THEN Outcome("CL_TRUE", s2, w, TRUE, TRUE, blockSize, "lazy")
        ELSE IF effectiveArea < area
        THEN Outcome("CL_TRUE", s3, w \cup {"global"}, TRUE, over, blockSize, "shrunk")
        ELSE Outcome("CL_FALSE", s3, w \cup {"global"}, TRUE, over, blockSize,
                     IF over /\ ~mwDivisible(chunkSize, blockSize) THEN "slow" ELSE "ok")

\* PlanCPU without the assignment of local[0]
PlanCPU_NoLocal(s1) ==
    Outcome("CL_FALSE",
            Assign(s1, [nChunk |-> 1, nChunkEstimate |-> 1, chunkSize |-> s1.area,
                        effectiveArea |-> s1.area, extra |-> 0, global |-> s1.area]),
            RunSizesFields \ {"local"}, FALSE, FALSE, 0, "cpu")

\* the CPU short cut
PlanCPU(s1) ==
    Outcome("CL_FALSE",
            Assign(s1, [nChunk |-> 1, nChunkEstimate |-> 1, chunkSize |-> s1.area,
                        effectiveArea |-> s1.area, extra |-> 0, local |-> 1,
                        global |-> s1.area]),
            RunSizesFields, FALSE, FALSE, 0, "cpu")

findRunSizes(s, a, d, p, q, g) ==
    LET r == a.r_steps
        mu == a.mu_steps
        s1 == EntryWrites(s, a)
    IN  IF r > CL_ULONG_MAX \div mu
        THEN Outcome("CL_TRUE", s1, EntryFields, FALSE, FALSE, 0, "overflow")
        ELSE IF d.devType = "CPU"
        THEN PlanCPU(s1)
        ELSE IF g.err # "CL_SUCCESS"
        THEN Outcome("CL_TRUE", s1, EntryFields, TRUE, FALSE, 0, "query")
        ELSE IF ~mwDivisible(g.wgs, d.warpSize)
        THEN Outcome("CL_TRUE", s1, EntryFields, TRUE, FALSE, 0, "warp")
        ELSE PlanGPU(s1, a, d, p, q, g)

\* ------------------------------------------------- inputs of findRunSizes
\* r_steps, mu_steps, warpSize, maxCompUnits and wgs are at least 1: with mu_steps,
\* warpSize or blockSize zero the code divides by zero (lines 141, 171, 207, 219).
\* All products of the inputs stay below the range of cl_ulong; differences of
\* areas reach past the range of cl_uint.
IntegralAreas == [r_steps : 1..MaxSteps, mu_steps : 1..MaxSteps, nu_steps : {2}]

WarpSizes == {1, 2}
CompUnits == {1, 2}
WorkGroupSizes == {1, 2, 3}
TargetFrequencies == {1, 30}
WorkItemSizes == {<<x, y, 1>> : x \in 1..MaxWorkItem, y \in {1, 2}}

\* the DevInfo fields findRunSizes and findNChunk read; the fields only
\* setupSeparationCL reads are held at one value
RunDevices ==
    [devType : {"CPU", "GPU"}, warpSize : WarpSizes, maxCompUnits : CompUnits,
     maxWorkItemSizes : WorkItemSizes, nonOutput : BOOLEAN, flops : {2000},
     memSize : {0}, maxMemAlloc : {0}, maxConstArgs : {0}, maxConstBufSize : {0},
     doubles : {TRUE}, amdGPU : {FALSE}, calTarget : {"MW_CAL_TARGET_INVALID"}]

RunRequests ==
    [magicFactor : (-1)..MaxMagic, nonResponsive : BOOLEAN,
     targetFrequency : TargetFrequencies, forceNoILKernel : {FALSE}]

RunParameters ==
    [number_streams : {1}, convolve : {1}, aux_bg_profile : {FALSE},
     number_integrals : {1}]

\* mwGetWorkGroupInfo's answers: an error, or a work group size. The answer is
\* read on the non-CPU path only, and wgs only when the query succeeded.
WorkGroupInfos(d) ==
    IF d.devType = "CPU"
    THEN {[err |-> "CL_SUCCESS", wgs |-> 1]}
    ELSE {[err |-> "CL_INVALID_KERNEL", wgs |-> 1]}
         \cup [err : {"CL_SUCCESS"}, wgs : WorkGroupSizes]

\* nothing of setupSeparationCL has run
NoHistory ==
    [caps |-> "none", failedCut |-> -1, srcBuilds |-> 0, binLoads |-> 0,
     kernelCreates |-> 0, src1 |-> "none", ilStage |-> "none", ilErr |-> "none",
     src2 |-> "none", kern |-> "none"]

\* setupSeparationCL has not been entered
SetupIdle ==
    /\ ias = <<>>
    /\ build = [DOUBLEPREC |-> TRUE, offlineDevices |-> FALSE]
    /\ pc = "idle"
    /\ err = "CL_SUCCESS"
    /\ useILKernel = FALSE
    /\ compileFlags = "none"
    /\ progs = <<>>
    /\ ciProg = 0
    /\ kernel = 0
    /\ hist = NoHistory

RunIdle ==
    /\ sizes = PriorSizes
    /\ written = {}
    /\ runRet = "none"
    /\ runInfo = [wgQueried |-> FALSE, clamped |-> FALSE, blockSize |-> 0, at |-> "none"]

InitRunSizes ==
    /\ ia \in IntegralAreas
    /\ di \in RunDevices
    /\ ap \in RunParameters
    /\ clr \in RunRequests
    /\ wgi \in WorkGroupInfos(di)
    /\ RunIdle
    /\ SetupIdle

\* the call findRunSizes(&sizes, ci, di, ap, ia, clr)
CallFindRunSizes ==
    /\ runRet = "none"
    /\ LET o == findRunSizes(sizes, ia, di, ap, clr, wgi)
       IN  /\ sizes' = o.sizes
           /\ written' = o.written
           /\ runRet' = o.ret
           /\ runInfo' = o.info
    /\ UNCHANGED <<inVars, setupVars>>

NextRunSizes == CallFindRunSizes

SpecRunSizes == InitRunSizes /\ [][NextRunSizes]_vars

\* ------------------------------------------------ properties of findRunSizes
Returned == runRet # "none"
Succeeded == runRet = "CL_FALSE"
Failed == runRet = "CL_TRUE"
NonCPU == di.devType # "CPU"
ForceOneChunk == clr.nonResponsive \/ di.nonOutput
Area == ia.r_steps * ia.mu_steps
Pow2s == {2^k : k \in 0..(2 * WidthBits)}

\* C1: whenever findRunSizes returns success, chunkSize * nChunk == effectiveArea
\* (r_steps, mu_steps, warp size, compute units >= 1 and wgs a multiple of the warp
\* size hold of every successful non-CPU call of the model), the plans of the
\* oversized-chunk loop included.
C1_ChunksCoverEffectiveArea ==
    Succeeded => sizes.chunkSize * sizes.nChunk = sizes.effectiveArea

\* C2: whenever findRunSizes returns success, effectiveArea >= area, with
\* area = r_steps * mu_steps, and extra == effectiveArea - area.
C2_PaddingOnlyAdds ==
    Succeeded => /\ sizes.area = Area
                 /\ sizes.effectiveArea >= sizes.area
                 /\ sizes.extra = sizes.effectiveArea - sizes.area

\* C3: on a CPU device findRunSizes succeeds with nChunk == 1, chunkSize ==
\* effectiveArea == area, extra == 0, local size 1 and global size == area, whatever
\* the request and the device's other fields are; the work group info is not
\* queried and the sizes are not clamped against maxWorkDim.
C3_CPUShortCircuit ==
    (Returned /\ di.devType = "CPU") =>
        /\ Succeeded
        /\ sizes.area = Area
        /\ sizes.nChunk = 1
        /\ sizes.chunkSize = Area
        /\ sizes.effectiveArea = Area
        /\ sizes.extra = 0
        /\ sizes.local = 1
        /\ sizes.global = Area
        /\ ~runInfo.wgQueried
        /\ ~runInfo.clamped

\* a CPU plan of an area above maxWorkDim, for a request with a magic factor and
\* nonResponsive set
C3_Witness ==
    /\ Succeeded
    /\ di.devType = "CPU"
    /\ Area > MaxWorkDim(di)
    /\ clr.magicFactor > 1
    /\ clr.nonResponsive
    /\ sizes.global = Area

\* C4 as claimed: for a non-CPU device and magicFactor = K > 0, every successful
\* plan in which the oversized-chunk loop did not run has chunkSize == K * blockSize,
\* for all areas and with nonResponsive / nonOutput set or unset.
C4_ChunkIsMagicTimesBlock ==
    (Succeeded /\ NonCPU /\ clr.magicFactor > 0 /\ ~runInfo.clamped) =>
        sizes.chunkSize = clr.magicFactor * runInfo.blockSize

\* C4 as amended: under the same conditions chunkSize == K * blockSize when the
\* plan has more than one chunk, that is when no single chunk is forced and
\* area > K * blockSize; otherwise nChunk == 1 and chunkSize is the area rounded
\* up to a multiple of blockSize.
C4_ChunkIsMagicTimesBlockUnlessOneChunk ==
    (Succeeded /\ NonCPU /\ clr.magicFactor > 0 /\ ~runInfo.clamped) =>
        LET K == clr.magicFactor
            blockSize == SizeT(SizeT((wgi.wgs \div di.warpSize) * di.warpSize)
                               * di.maxCompUnits)
        IN  IF ~ForceOneChunk /\ Area > SizeT(K * blockSize)
            THEN /\ sizes.nChunk > 1
                 /\ sizes.chunkSize = SizeT(K * blockSize)
            ELSE /\ sizes.nChunk = 1
                 /\ sizes.chunkSize = ULong(blockSize * mwDivRoundup(Area, blockSize))

\* a plan of several chunks of K * blockSize each, K > 1
C4_Witness ==
    /\ Succeeded /\ NonCPU /\ ~runInfo.clamped
    /\ clr.magicFactor > 1
    /\ sizes.nChunk > 1
    /\ sizes.chunkSize = clr.magicFactor * runInfo.blockSize

\* C5 as claimed: for a non-CPU device with nonResponsive or nonOutput set, a
\* successful findRunSizes returns nChunk == 1, for every area and every maxWorkDim.
C5_ForcedOneChunk ==
    (Succeeded /\ NonCPU /\ ForceOneChunk) => sizes.nChunk = 1

\* C5 as amended: under the same conditions effectiveArea is the area rounded up to
\* a multiple of blockSize, and nChunk == 1 when that effectiveArea is <= maxWorkDim;
\* when it exceeds maxWorkDim, nChunk is the least power of two for which
\* effectiveArea / nChunk (integer division) is <= maxWorkDim.
C5_ForcedOneChunkUnlessClamped ==
    (Succeeded /\ NonCPU /\ ForceOneChunk) =>
        LET blockSize == SizeT(SizeT((wgi.wgs \div di.warpSize) * di.warpSize)
                               * di.maxCompUnits)
            eff == ULong(blockSize * mwDivRoundup(Area, blockSize))
            n == sizes.nChunk
        IN  /\ sizes.effectiveArea = eff
            /\ eff <= MaxWorkDim(di) => n = 1
            /\ eff > MaxWorkDim(di) =>
                  /\ n \in Pow2s /\ n > 1
                  /\ eff \div n <= MaxWorkDim(di)
                  /\ eff \div (n \div 2) > MaxWorkDim(di)

\* a forced plan of one chunk where the magic factor alone gives several chunks
C5_Witness ==
    /\ Succeeded /\ NonCPU /\ ForceOneChunk
    /\ sizes.nChunk = 1
    /\ Area > MagicFactor(clr, Area, sizes.nChunkEstimate, runInfo.blockSize)
              * runInfo.blockSize

\* C6: when the oversized-chunk correction ran, a successful plan has chunkSize ==
\* global size <= maxWorkDim and a multiple of the local size; a chunkSize left by
\* the loop that is no multiple of the local size is an error; one that is a
\* multiple of the local size succeeds, a multiple of blockSize or not.
C6_ClampedChunkFitsAndDivides ==
    (Returned /\ runInfo.clamped) =>
        /\ Succeeded => /\ sizes.chunkSize <= MaxWorkDim(di)
                        /\ sizes.global = sizes.chunkSize
                        /\ sizes.local = di.warpSize
                        /\ mwDivisible(sizes.chunkSize, sizes.local)
        /\ ~mwDivisible(sizes.chunkSize, sizes.local) => Failed
        /\ (mwDivisible(sizes.chunkSize, sizes.local)
            /\ sizes.effectiveArea >= sizes.area) => Succeeded

\* a successful clamped plan, two doublings at least, local size above 1, whose
\* chunkSize is no multiple of blockSize
C6_Witness ==
    /\ Succeeded /\ runInfo.clamped
    /\ sizes.local > 1
    /\ sizes.nChunk >= 4
    /\ ~mwDivisible(sizes.chunkSize, runInfo.blockSize)

\* C7: on every path where findRunSizes returns an error the caller's RunSizes
\* is as before the call, no field of it written.
C7_NoPartialRunSizes ==
    Failed => /\ written = {}
              /\ sizes = PriorSizes

\* ======================================================== setupSeparationCL
\* ------------------------------------------------------- capability check
SizesFields == {"outBg", "outStreams", "ap", "ia", "sc", "sg_dx", "lTrig", "bSin", "rPts", "rc"}

\* "ok", or the check that rejects the SeparationSizes z on device d
separationCheckDevMemory(d, z) ==
    LET totalOut == SizeT(z.outBg + z.outStreams)
        totalConstBuf == SizeT(z.ap + z.ia + z.sc + z.sg_dx)
        totalGlobalConst == SizeT(z.lTrig + z.bSin + z.rPts + z.rc)
        totalMem == SizeT(totalOut + totalConstBuf + totalGlobalConst)
    IN  IF totalMem > d.memSize THEN "totalMem"
        ELSE IF totalOut > d.memSize THEN "totalOut"
        ELSE IF z.outBg > d.maxMemAlloc \/ z.outStreams > d.maxMemAlloc THEN "outAlloc"
        ELSE IF \/ z.lTrig > d.maxMemAlloc \/ z.bSin > d.maxMemAlloc
                \/ z.rPts > d.maxMemAlloc \/ z.rc > d.maxMemAlloc THEN "globalAlloc"
        ELSE IF NUM_CONST_BUF_ARGS > d.maxConstArgs THEN "constArgs"
        ELSE IF totalConstBuf > d.maxConstBufSize THEN "constBuf"
        ELSE "ok"

\* the for loop over the cuts from cut i (counted from 0): the cut it stops at,
\* or -1 when it runs to the end
RECURSIVE CheckCutsFrom(_, _, _, _)
CheckCutsFrom(i, d, p, cuts) ==
    IF i < p.number_integrals
    THEN IF separationCheckDevMemory(d, cuts[i + 1]) # "ok"
         THEN i
         ELSE CheckCutsFrom(i + 1, d, p, cuts)
    ELSE -1

\* its result, and the cut reported in "Capability check failed for cut %u"
separationCheckDevCapabilities(d, p, cuts, b) ==
    IF b.DOUBLEPREC /\ ~d.doubles
    THEN [ok |-> FALSE, cut |-> -1]
    ELSE LET c == CheckCutsFrom(0, d, p, cuts)
         IN  [ok |-> c = -1, cut |-> c]

\* ------------------------------------------------------ kernel variant
isILKernelTarget(d) ==
    d.calTarget \in {"MW_CAL_TARGET_770", "MW_CAL_TARGET_CYPRESS", "MW_CAL_TARGET_CAYMAN"}

usingILKernelIsAcceptable(d, p, q, b) ==
    IF ~b.DOUBLEPREC THEN FALSE
    ELSE IF q.forceNoILKernel THEN FALSE
    ELSE IF p.number_streams > maxILKernelStreams \/ p.aux_bg_profile THEN FALSE
    ELSE d.amdGPU /\ isILKernelTarget(d) /\ b.offlineDevices

\* ----------------------------------------------------------------- inputs
\* SeparationSizes of one cut, as calculateSizes leaves them
CutSizes ==
    {[f \in SizesFields |-> IF f = "outBg" THEN o ELSE IF f = "lTrig" THEN l ELSE 1] :
        o \in {1, 3}, l \in {1, 3}}

CutSeqs(n) == [1..n -> CutSizes]

\* a device that passes every check on every cut, and devices with one limit lowered
BigDevice ==
    [devType |-> "GPU", warpSize |-> 1, maxCompUnits |-> 1,
     maxWorkItemSizes |-> <<1, 1, 1>>, nonOutput |-> FALSE, flops |-> 2000,
     memSize |-> 20, maxMemAlloc |-> 4, maxConstArgs |-> 8, maxConstBufSize |-> 4,
     doubles |-> TRUE, amdGPU |-> FALSE, calTarget |-> "MW_CAL_TARGET_INVALID"]

SetupLimits ==
    {BigDevice,
     [BigDevice EXCEPT !.memSize = 12],
     [BigDevice EXCEPT !.maxMemAlloc = 2],
     [BigDevice EXCEPT !.maxConstArgs = 4],
     [BigDevice EXCEPT !.maxConstBufSize = 3],
     [BigDevice EXCEPT !.doubles = FALSE]}

CalTargets == {"MW_CAL_TARGET_770", "MW_CAL_TARGET_CYPRESS", "MW_CAL_TARGET_INVALID"}

SetupDevices ==
    {[d EXCEPT !.amdGPU = a, !.calTarget = t] :
        d \in SetupLimits, a \in BOOLEAN, t \in CalTargets}

SetupParameters ==
    [number_streams : {4, 5}, convolve : {1}, aux_bg_profile : BOOLEAN,
     number_integrals : 1..MaxCuts]

SetupRequests ==
    [magicFactor : {0}, nonResponsive : {FALSE}, targetFrequency : {30},
     forceNoILKernel : BOOLEAN]

Builds == [DOUBLEPREC : BOOLEAN, offlineDevices : BOOLEAN]

InitSetup ==
    /\ di \in SetupDevices
    /\ ap \in SetupParameters
    /\ clr \in SetupRequests
    /\ build \in Builds
    /\ ias \in CutSeqs(ap.number_integrals)
    /\ ia = [r_steps |-> 1, mu_steps |-> 1, nu_steps |-> 1]
    /\ wgi = [err |-> "CL_SUCCESS", wgs |-> 1]
    /\ RunIdle
    /\ pc = "start"
    /\ err = "CL_SUCCESS"
    /\ useILKernel = FALSE
    /\ compileFlags = "none"
    /\ progs = <<>>
    /\ ciProg = 0
    /\ kernel = 0
    /\ hist = NoHistory

\* ---------------------------------------------------------------- actions
\* a program object: how it was made, and how often clReleaseProgram succeeded on it
NewProgram(kind) == [kind |-> kind, released |-> 0]

\* err = mwSetupCL(ci, clr)
SetupCL ==
    /\ pc = "start"
    /\ \E e \in {"CL_SUCCESS", "CL_DEVICE_NOT_FOUND"} :
          /\ err' = e
          /\ pc' = IF e = "CL_SUCCESS" THEN "caps" ELSE "done"
    /\ UNCHANGED <<inVars, runVars, ias, build, useILKernel, compileFlags, progs,
                   ciProg, kernel, hist>>

\* CheckCapabilities that goes on to the build whatever the check says
CheckCapabilities_Proceed ==
    /\ pc = "caps"
    /\ LET c == separationCheckDevCapabilities(di, ap, ias, build)
       IN  /\ hist' = [hist EXCEPT !.caps = IF c.ok THEN "pass" ELSE "fail",
                                   !.failedCut = c.cut]
           /\ pc' = "flags"
           /\ err' = err
    /\ UNCHANGED <<inVars, runVars, ias, build, useILKernel, compileFlags, progs,
                   ciProg, kernel>>

\* if (!separationCheckDevCapabilities(&ci->di, ap, ias)) return MW_CL_ERROR;
CheckCapabilities ==
    /\ pc = "caps"
    /\ LET c == separationCheckDevCapabilities(di, ap, ias, build)
       IN  /\ hist' = [hist EXCEPT !.caps = IF c.ok THEN "pass" ELSE "fail",
                                   !.failedCut = c.cut]
           /\ pc' = IF c.ok THEN "flags" ELSE "done"
           /\ err' = IF c.ok THEN err ELSE "MW_CL_ERROR"
    /\ UNCHANGED <<inVars, runVars, ias, build, useILKernel, compileFlags, progs,
                   ciProg, kernel>>

\* useILKernel = usingILKernelIsAcceptable(..); compileFlags = getCompilerFlags(..)
GetCompilerFlags ==
    /\ pc = "flags"
    /\ useILKernel' = usingILKernelIsAcceptable(di, ap, clr, build)
    /\ \E got \in BOOLEAN :
          IF got
          THEN /\ compileFlags' = "allocated"
               /\ pc' = "src"
               /\ err' = err
          ELSE /\ compileFlags' = "none"
               /\ pc' = "exit"
               /\ err' = "MW_CL_ERROR"
    /\ UNCHANGED <<inVars, runVars, ias, build, progs, ciProg, kernel, hist>>

\* err = mwSetProgramFromSrc(..), the first build
BuildFromSource ==
    /\ pc = "src"
    /\ \E e \in {"CL_SUCCESS", "CL_BUILD_PROGRAM_FAILURE"} :
          /\ err' = e
          /\ hist' = [hist EXCEPT !.srcBuilds = @ + 1, !.src1 = e]
          /\ IF e = "CL_SUCCESS"
             THEN /\ progs' = Append(progs, NewProgram("source"))
                  /\ ciProg' = Len(progs) + 1
                  /\ pc' = IF useILKernel THEN "il_binary" ELSE "kernel"
             ELSE /\ UNCHANGED <<progs, ciProg>>
                  /\ pc' = "exit"
    /\ UNCHANGED <<inVars, runVars, ias, build, useILKernel, compileFlags, kernel>>

\* setProgramFromILKernel: bin = mwGetProgramBinary(ci, &binSize)
ILGetBinary ==
    /\ pc = "il_binary"
    /\ \E got \in BOOLEAN :
          IF got
          THEN /\ pc' = "il_release"
               /\ UNCHANGED <<err, hist>>
          ELSE /\ pc' = "fallback"
               /\ err' = "MW_CL_ERROR"
               /\ hist' = [hist EXCEPT !.ilStage = "binary", !.ilErr = "MW_CL_ERROR"]
    /\ UNCHANGED <<inVars, runVars, ias, build, useILKernel, compileFlags, progs,
                   ciProg, kernel>>

\* setProgramFromILKernel: err = clReleaseProgram(ci->prog)
ILReleaseProgram ==
    /\ pc = "il_release"
    /\ \E e \in {"CL_SUCCESS", "CL_INVALID_PROGRAM"} :
          IF e = "CL_SUCCESS"
          THEN /\ progs' = [progs EXCEPT ![ciProg].released = @ + 1]
               /\ pc' = "il_patch"
               /\ UNCHANGED <<err, hist>>
          ELSE /\ pc' = "fallback"
               /\ err' = e
               /\ hist' = [hist EXCEPT !.ilStage = "release", !.ilErr = e]
               /\ UNCHANGED progs
    /\ UNCHANGED <<inVars, runVars, ias, build, useILKernel, compileFlags, ciProg,
                   kernel>>

\* setProgramFromILKernel: modBin = getModifiedAMDBinary(..)
ILPatchBinary ==
    /\ pc = "il_patch"
    /\ \E got \in BOOLEAN :
          IF got
          THEN /\ pc' = "il_load"
               /\ UNCHANGED <<err, hist>>
          ELSE /\ pc' = "fallback"
               /\ err' = "MW_CL_ERROR"
               /\ hist' = [hist EXCEPT !.ilStage = "patch", !.ilErr = "MW_CL_ERROR"]
    /\ UNCHANGED <<inVars, runVars, ias, build, useILKernel, compileFlags, progs,
                   ciProg, kernel>>

\* setProgramFromILKernel: err = mwSetProgramFromBin(ci, modBin, modBinSize)
ILLoadBinary ==
    /\ pc = "il_load"
    /\ \E e \in {"CL_SUCCESS", "CL_INVALID_BINARY"} :
          /\ err' = e
          /\ IF e = "CL_SUCCESS"
             THEN /\ progs' = Append(progs, NewProgram("binary"))
                  /\ ciProg' = Len(progs) + 1
                  /\ pc' = "kernel"
                  /\ hist' = [hist EXCEPT !.binLoads = @ + 1, !.ilStage = "ok",
                                          !.ilErr = e]
             ELSE /\ UNCHANGED <<progs, ciProg>>
                  /\ pc' = "fallback"
                  /\ hist' = [hist EXCEPT !.binLoads = @ + 1, !.ilStage = "load",
                                          !.ilErr = e]
    /\ UNCHANGED <<inVars, runVars, ias, build, useILKernel, compileFlags, kernel>>

\* FallbackToSource without the rebuild: the IL kernel's error is kept
FallbackToSource_NoRebuild ==
    /\ pc = "fallback"
    /\ pc' = "exit"
    /\ UNCHANGED <<inVars, runVars, ias, build, useILKernel, compileFlags, progs,
                   ciProg, kernel, hist, err>>

\* "Falling back to source kernel": err = mwSetProgramFromSrc(..), the second build
FallbackToSource ==
    /\ pc = "fallback"
    /\ \E e \in {"CL_SUCCESS", "CL_BUILD_PROGRAM_FAILURE"} :
          /\ err' = e
          /\ hist' = [hist EXCEPT !.srcBuilds = @ + 1, !.src2 = e]
          /\ IF e = "CL_SUCCESS"
             THEN /\ progs' = Append(progs, NewProgram("source"))
                  /\ ciProg' = Len(progs) + 1
                  /\ pc' = "kernel"
             ELSE /\ UNCHANGED <<progs, ciProg>>
                  /\ pc' = "exit"
    /\ UNCHANGED <<inVars, runVars, ias, build, useILKernel, compileFlags, kernel>>

\* if (err == CL_SUCCESS) err = mwCreateKernel(&_separationKernel, ci, "probabilities")
CreateKernel ==
    /\ pc = "kernel"
    /\ err = "CL_SUCCESS"
    /\ \E e \in {"CL_SUCCESS", "CL_INVALID_KERNEL_NAME"} :
          /\ err' = e
          /\ kernel' = IF e = "CL_SUCCESS" THEN ciProg ELSE kernel
          /\ hist' = [hist EXCEPT !.kernelCreates = @ + 1, !.kern = e]
    /\ pc' = "exit"
    /\ UNCHANGED <<inVars, runVars, ias, build, useILKernel, compileFlags, progs,
                   ciProg>>

\* setup_exit: free(compileFlags); return err;
SetupExit ==
    /\ pc = "exit"
    /\ compileFlags' = IF compileFlags = "allocated" THEN "freed" ELSE compileFlags
    /\ pc' = "done"
    /\ UNCHANGED <<inVars, runVars, ias, build, useILKernel, progs, ciProg, kernel,
                   hist, err>>

NextSetup ==
    \/ SetupCL
    \/ CheckCapabilities
    \/ GetCompilerFlags
    \/ BuildFromSource
    \/ ILGetBinary
    \/ ILReleaseProgram
    \/ ILPatchBinary
    \/ ILLoadBinary
    \/ FallbackToSource
    \/ CreateKernel
    \/ SetupExit

SpecSetup == InitSetup /\ [][NextSetup]_vars

\* ------------------------------------------- properties of setupSeparationCL
CutFails(i) == separationCheckDevMemory(di, ias[i]) # "ok"
DoublesMissing == build.DOUBLEPREC /\ ~di.doubles
SomeCheckFails == DoublesMissing \/ \E i \in 1..ap.number_integrals : CutFails(i)
NothingBuilt ==
    /\ progs = <<>>
    /\ ciProg = 0
    /\ kernel = 0
    /\ hist.srcBuilds = 0
    /\ hist.binLoads = 0
    /\ hist.kernelCreates = 0

\* C8: the capability check precedes every build step; if the double support or
\* any check of any cut fails, separationCheckDevCapabilities is false at the first
\* failing cut, setupSeparationCL returns an error, and no program is built from
\* source or binary and no kernel is created in that run.
C8_CapabilityCheckBeforeBuild ==
    /\ hist.caps = "none" => NothingBuilt
    /\ (hist.caps # "none" /\ SomeCheckFails) =>
          /\ hist.caps = "fail"
          /\ pc = "done"
          /\ err = "MW_CL_ERROR"
          /\ NothingBuilt
          /\ ~DoublesMissing =>
                /\ CutFails(hist.failedCut + 1)
                /\ \A i \in 1..hist.failedCut : ~CutFails(i)

\* the second cut's output buffer exceeds maxMemAlloc, the first cut passes, and
\* setupSeparationCL has returned
C8_Witness ==
    /\ pc = "done"
    /\ hist.caps = "fail"
    /\ hist.failedCut = 1
    /\ separationCheckDevMemory(di, ias[2]) = "outAlloc"
    /\ separationCheckDevMemory(di, ias[1]) = "ok"

ILFailed == hist.ilStage \in {"binary", "release", "patch", "load"}

\* C9: with useILKernel and a successful first source build, a failure of any step
\* of setProgramFromILKernel is not returned: the source kernel is rebuilt; if the
\* rebuild succeeds the kernel is created from the rebuilt source program and
\* setupSeparationCL returns the kernel creation's result; a build error is
\* returned, with no kernel created, only when a source build failed.
C9_FallbackToSourceKernel ==
    /\ (pc = "done" /\ useILKernel /\ hist.src1 = "CL_SUCCESS" /\ ILFailed) =>
          /\ hist.src2 # "none"
          /\ hist.src2 = "CL_SUCCESS" =>
                /\ hist.kernelCreates = 1
                /\ err = hist.kern
                /\ ciProg = Len(progs)
                /\ progs[ciProg].kind = "source"
                /\ progs[ciProg].released = 0
                /\ hist.kern = "CL_SUCCESS" => kernel = ciProg
          /\ hist.src2 # "CL_SUCCESS" =>
                /\ err = hist.src2
                /\ kernel = 0
                /\ hist.kernelCreates = 0
    /\ (pc = "done" /\ err = "CL_BUILD_PROGRAM_FAILURE") =>
          /\ hist.src1 = err \/ hist.src2 = err
          /\ kernel = 0
          /\ hist.kernelCreates = 0

\* patching the binary failed, the rebuild succeeded, and setupSeparationCL has
\* returned CL_SUCCESS with the kernel of the rebuilt source program
C9_Witness ==
    /\ pc = "done"
    /\ useILKernel
    /\ hist.ilStage = "patch"
    /\ hist.src2 = "CL_SUCCESS"
    /\ err = "CL_SUCCESS"
    /\ kernel = ciProg
    /\ kernel = 2
    /\ progs[kernel].kind = "source"

\* C10: when the fallback rebuild is about to start, on every failure path of
\* setProgramFromILKernel, the program of the first source build has been released
\* exactly once, and no program object is live or released twice.
C10_ProgramReleasedBeforeRebuild ==
    pc = "fallback" =>
        /\ progs[1].released = 1
        /\ \A i \in 1..Len(progs) : progs[i].released = 1

====
